---- MODULE Spec2Model ----
(***************************************************************************)
(* H264Repacketizer (plugins/homekit/src/types/camera/h264-packetizer.ts). *)
(* Payloads are sequences of bytes (0..255); a JavaScript Buffer index i   *)
(* is position i+1 of the sequence.  An RTP packet is the record           *)
(* [sequenceNumber, marker, timestamp, payload].                           *)
(***************************************************************************)
EXTENDS Integers, Sequences, FiniteSets, TLC

\* ---------------------------------------------------------------- constants
NAL_TYPE_STAP_A == 24
NAL_TYPE_FU_A == 28
NAL_TYPE_IDR == 5
NAL_TYPE_SEI == 6
NAL_TYPE_SPS == 7
NAL_TYPE_PPS == 8
NAL_HEADER_SIZE == 1
FU_A_HEADER_SIZE == 2
LENGTH_FIELD_SIZE == 2
\* mutant: a second length field counted into the header
StapAHeaderTwoLengths == NAL_HEADER_SIZE + LENGTH_FIELD_SIZE + LENGTH_FIELD_SIZE
STAP_A_HEADER_SIZE == NAL_HEADER_SIZE + LENGTH_FIELD_SIZE
\* 0x10000, the modulus of RTP sequence numbers
SeqMod == 65536
\* the cap on NALs per aggregate (counter < 9)
MaxStapNals == 9

\* ------------------------------------------------------------------- bounds
\* repacketize calls per behaviour
MaxCalls == 3
\* the smaller and the larger maxPacketSize an instance is constructed with
SmallMax == 3
LargeMax == 9

VARIABLES
    maxPacketSize,  \* constructor argument
    codecInfo,      \* constructor argument: [sps, pps], each <<buffer>> or <<>> (absent)
    extraPackets,   \* signed counter
    pendingStapA,   \* <<>> (undefined) or <<list of packet references>>
    pendingFuA,     \* <<>> (undefined) or <<list of packet references>>
    seenSps,
    packets,        \* the caller's packet objects, by reference (call number)
    inputs,         \* history: each call's packet as it was at entry
    emitted,        \* history: every packet returned so far, in order
    returned,       \* history: per call, the number of packets returned
    threw,          \* history: per call, whether the call raised an error
    extraLog,       \* history: extraPackets after each call
    probe           \* arguments and result of a direct call of a pure helper

vars == <<maxPacketSize, codecInfo, extraPackets, pendingStapA, pendingFuA, seenSps,
          packets, inputs, emitted, returned, threw, extraLog, probe>>

\* e's value handed to F: a local constant (const x = e; ...)
Bind(e, F(_)) == CHOOSE v \in {F(x) : x \in {e}} : TRUE

\* ------------------------------------------------------- bytes and buffers
Min(a, b) == IF a < b THEN a ELSE b
Max(a, b) == IF a < b THEN b ELSE a

\* data[i] under a bit mask: an index past the end is undefined, and
\* undefined & mask is 0
At(data, i) == IF i >= 0 /\ i < Len(data) THEN data[i + 1] ELSE 0
\* b & 0x1f
Type5(b) == b % 32
\* b & 0x80
FBit(b) == (b \div 128) * 128
\* b & 0x60
Nri(b) == ((b \div 32) % 4) * 32
\* mutant: the mask 0x60 where 0x80 | 0x60 is meant
FnriNoF(b) == Nri(b)
\* b & (0x80 | 0x60)
Fnri(b) == (b \div 32) * 32
\* !!(b & 0x80), !!(b & 0x40)
StartBit(b) == (b \div 128) % 2 = 1
EndBit(b) == (b \div 64) % 2 = 1

\* mutant: the end index taken as inclusive
SubarrayInclusive(data, start, end) ==
    LET s == Min(Max(start, 0), Len(data))
        e == Min(Max(end + 1, 0), Len(data))
    IN IF e <= s THEN <<>> ELSE SubSeq(data, s + 1, e)
\* Buffer.subarray(start, end): both ends clamped to the buffer
Subarray(data, start, end) ==
    LET s == Min(Max(start, 0), Len(data))
        e == Min(Max(end, 0), Len(data))
    IN IF e <= s THEN <<>> ELSE SubSeq(data, s + 1, e)
\* Buffer.subarray(start)
SubarrayFrom(data, start) == Subarray(data, start, Len(data))

\* mutant: Math.floor in place of Math.ceil
CeilDivFloor(a, b) == a \div b
\* Math.ceil(a / b) for a >= 0, b > 0
CeilDiv(a, b) == (a + b - 1) \div b

\* JavaScript's % on integers: the sign of the result is the dividend's
JsRem(a, b) == IF a >= 0 THEN a % b ELSE -((-a) % b)

\* ------------------------------------------------------- depacketizeStapA
\* The while loop; lastPos = -1 stands for undefined.  readUInt16BE raises a
\* RangeError when fewer than two bytes remain at pos.
RECURSIVE DepacketizeLoop(_, _, _, _)
DepacketizeLoop(data, pos, lastPos, ret) ==
    IF pos < Len(data)
    THEN IF pos + LENGTH_FIELD_SIZE > Len(data)
         THEN [threw |-> TRUE, nals |-> <<>>]
         ELSE LET ret2 == IF lastPos # -1
                          THEN Append(ret, Subarray(data, lastPos, pos))
                          ELSE ret
                  naluSize == data[pos + 1] * 256 + data[pos + 2]
              IN DepacketizeLoop(data, pos + LENGTH_FIELD_SIZE + naluSize,
                                 pos + LENGTH_FIELD_SIZE, ret2)
    ELSE [threw |-> FALSE,
          nals |-> Append(ret, IF lastPos = -1 THEN data ELSE SubarrayFrom(data, lastPos))]

depacketizeStapA(data) == DepacketizeLoop(data, NAL_HEADER_SIZE, -1, <<>>)

\* ------------------------------------------------------------ packetizeFuA
\* The while loop: one fragment per turn.
RECURSIVE FuALoop(_, _, _, _, _, _, _, _)
FuALoop(data, offset, numLargerPackets, packageSize, fuHeader, fuHeaderMiddle, fuHeaderEnd, packages) ==
    IF offset < Len(data)
    THEN LET size == IF numLargerPackets > 0 THEN packageSize + 1 ELSE packageSize
             payload == Subarray(data, offset, offset + size)
             offset2 == offset + size
             hdr == IF offset2 = Len(data) THEN fuHeaderEnd ELSE fuHeader
         IN FuALoop(data, offset2,
                    IF numLargerPackets > 0 THEN numLargerPackets - 1 ELSE 0,
                    packageSize, fuHeaderMiddle, fuHeaderMiddle, fuHeaderEnd,
                    Append(packages, hdr \o payload))
    ELSE packages

\* mutant: the two FU bytes are not taken off the budget
fuaMaxNoHeader == maxPacketSize
\* this.fuaMax = maxPacketSize - FU_A_HEADER_SIZE
fuaMax == maxPacketSize - FU_A_HEADER_SIZE

\* The fragmentation of a whole NAL (after the FU-A input case has rebuilt it).
\* With no payload byte the loop never runs (its NaN sizes are never used).
FragmentNal(data, noStart, noEnd) ==
    IF Len(data) <= NAL_HEADER_SIZE
    THEN <<>>
    ELSE LET payloadSize == Len(data) - NAL_HEADER_SIZE
             numPackets == CeilDiv(payloadSize, fuaMax)
             numLargerPackets == payloadSize % numPackets
             packageSize == payloadSize \div numPackets
             fnri == Fnri(data[1])
             nal == Type5(data[1])
             fuIndicator == fnri + NAL_TYPE_FU_A
             fuHeaderMiddle == <<fuIndicator, nal>>
             fuHeaderStart == IF noStart THEN fuHeaderMiddle ELSE <<fuIndicator, nal + 128>>
             fuHeaderEnd == IF noEnd THEN fuHeaderMiddle ELSE <<fuIndicator, nal + 64>>
         IN FuALoop(data, NAL_HEADER_SIZE, numLargerPackets, packageSize,
                    fuHeaderStart, fuHeaderMiddle, fuHeaderEnd, <<>>)

\* An FU-A payload is first turned back into a (partial) NAL, and its start
\* and end bits decide noStart and noEnd.
packetizeFuA(data, noStart, noEnd) ==
    IF Type5(At(data, 0)) = NAL_TYPE_FU_A
    THEN LET fnri == Fnri(At(data, 0))
             originalNalType == Type5(At(data, 1))
             isFuStart == StartBit(At(data, 1))
             isFuEnd == EndBit(At(data, 1))
         IN Bind(<<fnri + originalNalType>> \o SubarrayFrom(data, FU_A_HEADER_SIZE),
                 LAMBDA whole :
                    FragmentNal(whole,
                                IF isFuStart THEN noStart ELSE TRUE,
                                IF isFuStart THEN TRUE ELSE IF isFuEnd THEN noEnd ELSE TRUE))
    ELSE FragmentNal(data, noStart, noEnd)

\* ------------------------------------------------------- packetizeOneStapA
\* The while loop that packs NALs from the front of the queue.
RECURSIVE StapALoop(_, _, _, _, _)
StapALoop(datas, availableSize, counter, stapHeader, payload) ==
    IF Len(datas) > 0 /\ Len(datas[1]) + LENGTH_FIELD_SIZE <= availableSize
       /\ counter < MaxStapNals
    THEN LET nalu == Head(datas)
             \* stapHeader |= nalu[0] & 0x80
             h1 == IF FBit(stapHeader) = 128 THEN stapHeader
                   ELSE stapHeader + FBit(At(nalu, 0))
             nri == Nri(At(nalu, 0))
             \* stapHeader = stapHeader & 0x9F | nri
             h2 == IF Nri(h1) < nri THEN h1 - Nri(h1) + nri ELSE h1
             packed == <<Len(nalu) \div 256, Len(nalu) % 256>>
         IN StapALoop(Tail(datas), availableSize - (LENGTH_FIELD_SIZE + Len(nalu)),
                      counter + 1, h2, payload \o packed \o nalu)
    ELSE [datas |-> datas, counter |-> counter, stapHeader |-> stapHeader,
          payload |-> payload]

\* datas is not empty (packetizeStapA calls it only while the queue holds a NAL).
\* The result: the packet, what is left of the queue, and how many NALs were
\* packed (0: the raw NAL came back unframed).
packetizeOneStapA(datas) ==
    Bind(StapALoop(datas, maxPacketSize - STAP_A_HEADER_SIZE, 0,
                   NAL_TYPE_STAP_A + Fnri(At(datas[1], 0)), <<>>),
         LAMBDA r :
            IF r.counter = 0
            THEN [packet |-> Head(r.datas), datas |-> Tail(r.datas), counter |-> 0]
            ELSE [packet |-> <<r.stapHeader>> \o r.payload, datas |-> r.datas,
                  counter |-> r.counter])

RECURSIVE packetizeStapALoop(_, _)
packetizeStapALoop(datas, ret) ==
    IF Len(datas) > 0
    THEN Bind(packetizeOneStapA(datas),
              LAMBDA one : packetizeStapALoop(one.datas, Append(ret, one)))
    ELSE ret

\* the aggregates, each with the number of NALs packed in it
packetizeStapA(datas) == packetizeStapALoop(datas, <<>>)

\* --------------------------------------------------------- sequence rewriter
\* rtp.serialize(): the header fields the core sets, and the payload
Serialize(rtp) ==
    [sequenceNumber |-> rtp.sequenceNumber, marker |-> rtp.marker,
     timestamp |-> rtp.timestamp, payload |-> rtp.payload]

\* A context c is the instance's mutable state during one call, with the
\* caller's packets (c.packets, by reference) and the list being returned.

\* mutant: the template keeps the payload written into it
createPacketNoRestore(c, id, data, marker) ==
    LET rtp == c.packets[id]
        written == [rtp EXCEPT
                      !.sequenceNumber = JsRem(rtp.sequenceNumber + c.extraPackets + SeqMod,
                                               SeqMod),
                      !.marker = marker,
                      !.payload = data]
        restored == [written EXCEPT
                       !.sequenceNumber = rtp.sequenceNumber,
                       !.marker = rtp.marker]
    IN [c |-> [c EXCEPT !.packets[id] = restored], ret |-> Serialize(written)]

\* createPacket: overwrite the template, serialize, restore.
createPacket(c, id, data, marker) ==
    LET rtp == c.packets[id]
        originalSequenceNumber == rtp.sequenceNumber
        originalMarker == rtp.marker
        originalPayload == rtp.payload
    IN Bind([rtp EXCEPT
               !.sequenceNumber = JsRem(rtp.sequenceNumber + c.extraPackets + SeqMod,
                                        SeqMod),
               !.marker = marker,
               !.payload = data],
            LAMBDA written :
               [c |-> [c EXCEPT !.packets[id] =
                          [written EXCEPT
                             !.sequenceNumber = originalSequenceNumber,
                             !.marker = originalMarker,
                             !.payload = originalPayload]],
                ret |-> Serialize(written)])

\* ret.push(createPacket(...)); tag records which path produced the packet
Push(c, id, data, marker, tag) ==
    Bind(createPacket(c, id, data, marker),
         LAMBDA r : [r.c EXCEPT !.ret = Append(@, [pkt |-> r.ret, tag |-> tag])])

RECURSIVE createRtpLoop(_, _, _, _, _, _)
createRtpLoop(c, id, nalus, hadMarker, tags, index) ==
    IF index >= Len(nalus)
    THEN c
    ELSE Bind(Push(IF index # 0 THEN [c EXCEPT !.extraPackets = @ + 1] ELSE c,
                   id, nalus[index + 1], hadMarker /\ index = Len(nalus) - 1,
                   tags[index + 1]),
              LAMBDA c1 : createRtpLoop(c1, id, nalus, hadMarker, tags, index + 1))

createRtpPackets(c, id, nalus, hadMarker, tags) ==
    createRtpLoop(c, id, nalus, hadMarker, tags, 0)

\* the payloads and the tags of a list of aggregates
AggPayloads(aggregates) == [i \in 1..Len(aggregates) |-> aggregates[i].packet]
AggTags(aggregates) ==
    [i \in 1..Len(aggregates) |-> IF aggregates[i].counter = 0 THEN "raw" ELSE "stapa"]
FuATags(fragments) == [i \in 1..Len(fragments) |-> "fua"]
\* pending.map(packet => packet.payload)
PayloadsOf(c, pending) == [i \in 1..Len(pending) |-> c.packets[pending[i]].payload]

\* ----------------------------------------------------------------- flushes
flushPendingStapA(c) ==
    IF c.pendingStapA = <<>>
    THEN c
    ELSE LET pending == c.pendingStapA[1]
             first == pending[1]
             hadMarker == c.packets[first].marker
         IN Bind(packetizeStapA(PayloadsOf(c, pending)),
                 LAMBDA aggregates :
                    IF Len(aggregates) # 1
                    THEN [c EXCEPT !.pendingStapA = <<>>]
                    ELSE [Push(c, first, aggregates[1].packet, hadMarker,
                               AggTags(aggregates)[1])
                            EXCEPT !.extraPackets = @ - (Len(pending) - 1),
                                   !.pendingStapA = <<>>])

\* the fragments' bytes after their two FU bytes, concatenated
RECURSIVE ConcatFragments(_, _)
ConcatFragments(payloads, i) ==
    IF i > Len(payloads) THEN <<>>
    ELSE SubarrayFrom(payloads[i], FU_A_HEADER_SIZE) \o ConcatFragments(payloads, i + 1)

\* the NAL rebuilt from the FU-A payloads of a group: the header from the
\* first fragment's indicator and type, then the fragments' bytes
Defragment(payloads) ==
    LET fnri == Fnri(At(payloads[1], 0))
        originalNalType == Type5(At(payloads[1], 1))
    IN <<fnri + originalNalType>> \o ConcatFragments(payloads, 1)

\* mutant: the sequence numbers are not compared
FuAGroupBrokenTypeOnly(c, pending) ==
    LET originalNalType == Type5(At(c.packets[pending[1]].payload, 1))
    IN \E i \in 1..Len(pending) :
          Type5(At(c.packets[pending[i]].payload, 1)) # originalNalType

\* the validation loop: TRUE when a fragment's type differs from the first's
\* or a sequence number does not follow its predecessor's
FuAGroupBroken(c, pending) ==
    LET originalNalType == Type5(At(c.packets[pending[1]].payload, 1))
    IN \E i \in 1..Len(pending) :
          \/ Type5(At(c.packets[pending[i]].payload, 1)) # originalNalType
          \/ /\ i > 1
             /\ c.packets[pending[i]].sequenceNumber
                  # (c.packets[pending[i - 1]].sequenceNumber + 1) % SeqMod

flushPendingFuA(c) ==
    IF c.pendingFuA = <<>>
    THEN c
    ELSE LET pending == c.pendingFuA[1]
             first == c.packets[pending[1]]
             last == c.packets[pending[Len(pending)]]
             hasFuStart == StartBit(At(first.payload, 1))
             hasFuEnd == EndBit(At(last.payload, 1))
         IN IF FuAGroupBroken(c, pending)
            THEN [c EXCEPT !.pendingFuA = <<>>]
            ELSE Bind(Defragment(PayloadsOf(c, pending)),
                      LAMBDA defragmented :
                         Bind(packetizeFuA(defragmented, ~hasFuStart, ~hasFuEnd),
                              LAMBDA fragments :
                                 [createRtpPackets(c, pending[1], fragments, last.marker,
                                                   FuATags(fragments))
                                    EXCEPT !.extraPackets = @ - (Len(pending) - 1),
                                           !.pendingFuA = <<>>]))

\* ---------------------------------------------------------- maybeSendSpsPps
\* mutant: the synthesised SPS counts as seen
maybeSendSpsPpsSeen(c, id) ==
    IF codecInfo.sps = <<>> \/ codecInfo.pps = <<>>
    THEN c
    ELSE Bind(packetizeStapA(<<codecInfo.sps[1], codecInfo.pps[1]>>),
              LAMBDA aggregates :
                 IF Len(aggregates) # 1
                 THEN c
                 ELSE [createRtpPackets(c, id, AggPayloads(aggregates),
                                        c.packets[id].marker, AggTags(aggregates))
                         EXCEPT !.extraPackets = @ + 1, !.seenSps = TRUE])

maybeSendSpsPps(c, id) ==
    IF codecInfo.sps = <<>> \/ codecInfo.pps = <<>>
    THEN c
    ELSE Bind(packetizeStapA(<<codecInfo.sps[1], codecInfo.pps[1]>>),
              LAMBDA aggregates :
                 IF Len(aggregates) # 1
                 THEN c
                 ELSE [createRtpPackets(c, id, AggPayloads(aggregates),
                                        c.packets[id].marker, AggTags(aggregates))
                         EXCEPT !.extraPackets = @ + 1])

\* -------------------------------------------------------------- repacketize
\* the rest of the FU-A branch: buffer the packet, flush on the end bit
FuABuffer(c, id) ==
    IF c.pendingFuA # <<>>
    THEN Bind([c EXCEPT !.pendingFuA = <<Append(@[1], id)>>],
              LAMBDA c1 :
                 IF EndBit(At(c1.packets[id].payload, 1))
                 THEN flushPendingFuA(c1)
                 ELSE c1)
    ELSE c

\* if (!this.pendingFuA): the fat fast path, or a new group
FuAFastPath(c, id) ==
    LET packet == c.packets[id]
    IN IF c.pendingFuA = <<>>
       THEN IF Len(packet.payload) >= maxPacketSize * 2
            THEN Bind(packetizeFuA(packet.payload, FALSE, FALSE),
                      LAMBDA fragments :
                         createRtpPackets(c, id, fragments, packet.marker,
                                          FuATags(fragments)))
            ELSE [c EXCEPT !.pendingFuA = << <<>> >>]
       ELSE c

\* an IDR start fragment with no SPS seen
FuASpsPps(c, id) ==
    LET data == c.packets[id].payload
        originalNalType == Type5(At(data, 1))
        isFuStart == StartBit(At(data, 1))
    IN IF originalNalType = NAL_TYPE_IDR /\ isFuStart /\ ~c.seenSps
       THEN maybeSendSpsPps(c, id)
       ELSE c

\* nalType === NAL_TYPE_FU_A
FuABranch(c, id) ==
    Bind(flushPendingStapA(c),
         LAMBDA c1 :
            Bind(FuASpsPps(c1, id),
                 LAMBDA c2 :
                    Bind(FuAFastPath(c2, id), LAMBDA c3 : FuABuffer(c3, id))))

\* the filter callback, applied to the NALs in order: the NALs kept
RECURSIVE FilterSei(_, _)
FilterSei(nals, i) ==
    IF i > Len(nals) THEN <<>>
    ELSE IF Type5(At(nals[i], 0)) # NAL_TYPE_SEI
         THEN <<nals[i]>> \o FilterSei(nals, i + 1)
         ELSE FilterSei(nals, i + 1)

\* the filter callback's effect on seenSps
HasSps(nals) == \E i \in 1..Len(nals) : Type5(At(nals[i], 0)) = NAL_TYPE_SPS

\* depacketize, filter, aggregate and emit; an error raised by
\* depacketizeStapA leaves the call there
StapAEmit(c, id) ==
    LET packet == c.packets[id]
    IN Bind(depacketizeStapA(packet.payload),
            LAMBDA dep :
               IF dep.threw
               THEN [c EXCEPT !.threw = TRUE]
               ELSE Bind(packetizeStapA(FilterSei(dep.nals, 1)),
                         LAMBDA aggregates :
                            createRtpPackets([c EXCEPT !.seenSps = @ \/ HasSps(dep.nals)],
                                             id, AggPayloads(aggregates), packet.marker,
                                             AggTags(aggregates))))

\* nalType === NAL_TYPE_STAP_A
StapABranch(c, id) == Bind(flushPendingFuA(c), LAMBDA c1 : StapAEmit(c1, id))

\* a single NAL that is neither SPS, PPS nor SEI: SPS/PPS ahead of an IDR,
\* then the NAL in fragments or as it is
SingleEmit(c, id, nalType) ==
    LET packet == c.packets[id]
    IN Bind(IF nalType = NAL_TYPE_IDR /\ ~c.seenSps THEN maybeSendSpsPps(c, id) ELSE c,
            LAMBDA c1 :
               IF Len(packet.payload) > maxPacketSize
               THEN Bind(packetizeFuA(packet.payload, FALSE, FALSE),
                         LAMBDA fragments :
                            createRtpPackets(c1, id, fragments, packet.marker,
                                             FuATags(fragments)))
               ELSE Push(c1, id, packet.payload, packet.marker, "single"))

\* after flushPendingFuA: buffer SPS and PPS; else flush them, drop an SEI
SingleDispatch(c, id, nalType) ==
    IF nalType = NAL_TYPE_SPS \/ nalType = NAL_TYPE_PPS
    THEN [c EXCEPT !.seenSps = @ \/ (nalType = NAL_TYPE_SPS),
                   !.pendingStapA = IF @ = <<>> THEN << <<id>> >>
                                    ELSE <<Append(@[1], id)>>]
    ELSE Bind(flushPendingStapA(c),
              LAMBDA c1 :
                 IF nalType = NAL_TYPE_SEI
                 THEN [c1 EXCEPT !.extraPackets = @ - 1]
                 ELSE SingleEmit(c1, id, nalType))

\* nalType >= 1 && nalType < 24
SingleBranch(c, id, nalType) ==
    Bind(flushPendingFuA(c), LAMBDA c1 : SingleDispatch(c1, id, nalType))

\* the else branch: unknown nal unit type
UnknownBranch(c) == [c EXCEPT !.extraPackets = @ - 1]

\* the dispatch on the NAL type
Dispatch(c, id) ==
    LET nalType == Type5(At(c.packets[id].payload, 0))
    IN IF nalType = NAL_TYPE_FU_A THEN FuABranch(c, id)
       ELSE IF nalType = NAL_TYPE_STAP_A THEN StapABranch(c, id)
       ELSE IF nalType >= 1 /\ nalType < 24 THEN SingleBranch(c, id, nalType)
       ELSE UnknownBranch(c)

\* mutant: the buffered SPS/PPS outlive a change of timestamp
TimestampFlushSkipped(c, id) == c

\* stapa packets must share the same timestamp
TimestampFlushStapA(c, id) ==
    IF c.pendingStapA # <<>>
       /\ c.packets[c.pendingStapA[1][1]].timestamp # c.packets[id].timestamp
    THEN flushPendingStapA(c)
    ELSE c

\* fragmented packets must share a timestamp
TimestampFlushFuA(c, id) ==
    IF c.pendingFuA # <<>>
       /\ c.packets[c.pendingFuA[1][1]].timestamp # c.packets[id].timestamp
    THEN flushPendingFuA(c)
    ELSE c

repacketize(c, id) ==
    Bind(TimestampFlushFuA(c, id),
         LAMBDA c1 :
            Bind(TimestampFlushStapA(c1, id), LAMBDA c2 : Dispatch(c2, id)))

\* ------------------------------------------------------------------ inputs
\* n content bytes, all different from their neighbours
Fill(n, base) == [i \in 1..n |-> (base + i) % 256]

\* the wire form of a STAP-A holding the NALs (header byte 0x18)
RECURSIVE StapBody(_)
StapBody(nals) ==
    IF nals = <<>> THEN <<>>
    ELSE <<Len(Head(nals)) \div 256, Len(Head(nals)) % 256>> \o Head(nals)
         \o StapBody(Tail(nals))
Stap(nals) == <<NAL_TYPE_STAP_A>> \o StapBody(nals)

\* single NALs: a slice (0x41), an IDR (0x65), an SEI (0x06), SPS (0x67), PPS (0x68)
Slice == <<65, 170>>
BigSlice == <<65>> \o Fill(maxPacketSize + 5, 0)
Idr == <<101, 187>>
Sei == <<6, 204>>
Sps == <<103>>
Pps == <<104>>
SinglePayloads == {Slice, BigSlice, Idr, Sei, Sps, Pps}

\* STAP-A packets: only an SEI; SPS, SEI and a slice; an IDR; a NAL that no
\* aggregate can hold; one cut in the middle of a length field
StapPayloads ==
    {Stap(<<Sei>>), Stap(<<Sps, Sei, Slice>>), Stap(<<Idr>>), Stap(<<BigSlice>>),
     <<NAL_TYPE_STAP_A, 0>>}

\* FU-A packets (indicator 0x7C, 0x1C or 0x5C): the start and the end fragment
\* of an IDR, a whole SEI in one fragment, a fat start fragment of a slice, and
\* a fragment with no bytes
FuAPayloads ==
    {<<124, 133, 4>>, <<124, 69, 5, 6>>, <<28, 198, 7>>,
     <<92, 129>> \o Fill(2 * maxPacketSize - 2, 16), <<92, 1>>}

\* a type outside 1..23, 24, 28, and the empty payload
UnknownPayloads == {<<30, 9>>, <<>>}

\* the first packet's sequence number: the next one wraps
FirstSeq == SeqMod - 1

LastInput == inputs[Len(inputs)]
NextSeq == IF inputs = <<>> THEN FirstSeq ELSE (LastInput.sequenceNumber + 1) % SeqMod
\* the same access unit, or the next one
NextTimestamps == IF inputs = <<>> THEN {0} ELSE {LastInput.timestamp, LastInput.timestamp + 1}

\* ------------------------------------------------------------ state machine
NoProbe == [op |-> "none"]

\* the constructor's arguments: both parameter sets, or the PPS missing
Configs ==
    {[max |-> SmallMax, codecInfo |-> [sps |-> <<Sps>>, pps |-> <<Pps>>]],
     [max |-> LargeMax, codecInfo |-> [sps |-> <<Sps>>, pps |-> <<Pps>>]],
     [max |-> LargeMax, codecInfo |-> [sps |-> <<Sps>>, pps |-> <<>>]]}

\* the instance after construction
Constructed(m, ci) ==
    /\ maxPacketSize = m
    /\ codecInfo = ci
    /\ extraPackets = 0
    /\ pendingStapA = <<>>
    /\ pendingFuA = <<>>
    /\ seenSps = FALSE
    /\ packets = <<>>
    /\ inputs = <<>>
    /\ emitted = <<>>
    /\ returned = <<>>
    /\ threw = <<>>
    /\ extraLog = <<>>

Init ==
    /\ \E cfg \in Configs : Constructed(cfg.max, cfg.codecInfo)
    /\ probe = NoProbe

\* One call repacketize(packet).  A call that raises returns nothing.
Repacketize(packet) ==
    /\ Len(inputs) < MaxCalls
    /\ \E id \in {Len(packets) + 1} :
       \E c0 \in {[extraPackets |-> extraPackets, pendingStapA |-> pendingStapA,
                   pendingFuA |-> pendingFuA, seenSps |-> seenSps,
                   packets |-> Append(packets, packet), ret |-> <<>>, threw |-> FALSE]} :
       \E c \in {repacketize(c0, id)} : \E ret \in {IF c.threw THEN <<>> ELSE c.ret} :
          /\ extraPackets' = c.extraPackets
          /\ pendingStapA' = c.pendingStapA
          /\ pendingFuA' = c.pendingFuA
          /\ seenSps' = c.seenSps
          /\ packets' = c.packets
          /\ inputs' = Append(inputs, packet)
          /\ emitted' = emitted \o [i \in 1..Len(ret) |->
                                      [pkt |-> ret[i].pkt, tag |-> ret[i].tag, call |-> id]]
          /\ returned' = Append(returned, Len(ret))
          /\ threw' = Append(threw, c.threw)
          /\ extraLog' = Append(extraLog, c.extraPackets)
    /\ UNCHANGED <<maxPacketSize, codecInfo, probe>>

Packet(seq, marker, ts, payload) ==
    [sequenceNumber |-> seq, marker |-> marker, timestamp |-> ts, payload |-> payload]

RepacketizeSingle ==
    \E payload \in SinglePayloads, marker \in BOOLEAN, ts \in NextTimestamps :
        Repacketize(Packet(NextSeq, marker, ts, payload))

RepacketizeStapA ==
    \E payload \in StapPayloads, marker \in BOOLEAN, ts \in NextTimestamps :
        Repacketize(Packet(NextSeq, marker, ts, payload))

RepacketizeFuA ==
    \E payload \in FuAPayloads, marker \in BOOLEAN, ts \in NextTimestamps :
        Repacketize(Packet(NextSeq, marker, ts, payload))

RepacketizeUnknown ==
    \E payload \in UnknownPayloads, marker \in BOOLEAN, ts \in NextTimestamps :
        Repacketize(Packet(NextSeq, marker, ts, payload))

\* an FU-A packet that arrives after the packet before it was lost
RepacketizeAfterLoss ==
    /\ inputs # <<>>
    /\ \E payload \in FuAPayloads, ts \in NextTimestamps :
          Repacketize(Packet((NextSeq + 1) % SeqMod, FALSE, ts, payload))

Next ==
    \/ RepacketizeSingle
    \/ RepacketizeStapA
    \/ RepacketizeFuA
    \/ RepacketizeUnknown
    \/ RepacketizeAfterLoss

Spec == Init /\ [][Next]_vars

\* ------------------------------------------- direct calls of packetizeFuA
\* bounds of the direct calls: the largest maxPacketSize and the longest buffer
MaxProbeSize == 7
MaxProbeLen == 9

\* header bytes: a slice (0x41), an IDR (0x65), a slice with the F bit (0xE1),
\* and an FU-A indicator (0x5C), whose second byte is then an FU header
ProbeHeaders == {65, 101, 225, 92}

ProbeBuffers ==
    {<<h>> \o Fill(n, 128) : h \in ProbeHeaders, n \in 0..(MaxProbeLen - 1)}

InitFuA ==
    /\ \E m \in 3..MaxProbeSize :
          Constructed(m, [sps |-> <<Sps>>, pps |-> <<Pps>>])
    /\ probe = NoProbe

\* packetizeFuA(data, noStart, noEnd) on a fresh instance
CallPacketizeFuA ==
    /\ probe = NoProbe
    /\ \E data \in ProbeBuffers, noStart \in BOOLEAN, noEnd \in BOOLEAN :
          probe' = [op |-> "packetizeFuA", data |-> data, noStart |-> noStart,
                    noEnd |-> noEnd, fragments |-> packetizeFuA(data, noStart, noEnd)]
    /\ UNCHANGED <<maxPacketSize, codecInfo, extraPackets, pendingStapA, pendingFuA,
                   seenSps, packets, inputs, emitted, returned, threw, extraLog>>

NextFuA == CallPacketizeFuA

SpecFuA == InitFuA /\ [][NextFuA]_vars

\* -------------------------------------- direct calls of packetizeOneStapA
\* bounds of the direct calls: the largest maxPacketSize, and the longest
\* queue of mixed NALs
MaxStapProbeSize == 32
MaxProbeNals == 3

\* an SPS of one byte, a PPS of two, a slice of three with the F bit clear and
\* the highest NRI
ProbeNals == {<<103>>, <<72, 1>>, <<97, 2, 3>>}

\* every mixed queue up to MaxProbeNals long, and queues of eight to ten
\* equal NALs (the cap is nine)
ProbeQueues ==
    UNION {[1..k -> ProbeNals] : k \in 1..MaxProbeNals}
    \cup {[i \in 1..k |-> n] : k \in (MaxStapNals - 1)..(MaxStapNals + 1), n \in ProbeNals}

InitStapA ==
    /\ \E m \in 3..MaxStapProbeSize :
          Constructed(m, [sps |-> <<Sps>>, pps |-> <<Pps>>])
    /\ probe = NoProbe

\* packetizeOneStapA(datas) on a fresh instance, and depacketizeStapA of what
\* it returned
CallPacketizeOneStapA ==
    /\ probe = NoProbe
    /\ \E datas \in ProbeQueues :
       \E one \in {packetizeOneStapA(datas)} :
          probe' = [op |-> "packetizeOneStapA", datas |-> datas, packet |-> one.packet,
                    rest |-> one.datas, counter |-> one.counter,
                    depacketized |-> depacketizeStapA(one.packet)]
    /\ UNCHANGED <<maxPacketSize, codecInfo, extraPackets, pendingStapA, pendingFuA,
                   seenSps, packets, inputs, emitted, returned, threw, extraLog>>

NextStapA == CallPacketizeOneStapA

SpecStapA == InitStapA /\ [][NextStapA]_vars

\* ------------------------------------------------- long runs of drops
\* the drops a behaviour may accumulate (two runs of 2^16 + 1), and its calls
\* that emit
MaxDropped == 131074
MaxWrapCalls == 2

\* the lengths of the runs of dropped packets: around the modulus
DropRuns == {SeqMod - 1, SeqMod, SeqMod + 1}
\* the sequence numbers of the packets that follow a run
WrapSeqs == {0, 1, SeqMod - 1}

InitWrap ==
    /\ Constructed(LargeMax, [sps |-> <<Sps>>, pps |-> <<Pps>>])
    /\ probe = NoProbe

\* n calls repacketize(sei) in a row, each with a single-NAL SEI packet and
\* nothing buffered: each call returns no packet and decrements extraPackets.
\* The histories keep the calls that can emit only.
DropRun ==
    /\ pendingStapA = <<>> /\ pendingFuA = <<>>
    /\ \E n \in DropRuns :
          /\ extraPackets - n >= -MaxDropped
          /\ extraPackets' = extraPackets - n
    /\ UNCHANGED <<maxPacketSize, codecInfo, pendingStapA, pendingFuA, seenSps, packets,
                   inputs, emitted, returned, threw, extraLog, probe>>

\* a call with a slice or an IDR, after the drops
RepacketizeAfterDrops ==
    /\ Len(inputs) < MaxWrapCalls
    /\ \E payload \in {Slice, BigSlice, Idr}, seq \in WrapSeqs, marker \in BOOLEAN :
          Repacketize(Packet(seq, marker, Len(inputs), payload))

NextWrap == DropRun \/ RepacketizeAfterDrops

SpecWrap == InitWrap /\ [][NextWrap]_vars

\* ----------------------------------------- the oversized-IDR scenario
\* maxPacketSize 1000, SPS and PPS of 20 bytes, an IDR of 4000 bytes
ScenarioSps == <<103>> \o Fill(19, 0)
ScenarioPps == <<104>> \o Fill(19, 32)
ScenarioIdr == <<101>> \o Fill(3999, 64)
\* the sequence numbers N the IDR arrives with: around the wrap
ScenarioSeqs == {n \in 0..(SeqMod - 1) : n < 60 \/ n >= SeqMod - 60}

InitScenario ==
    /\ Constructed(1000, [sps |-> <<ScenarioSps>>, pps |-> <<ScenarioPps>>])
    /\ probe = NoProbe

RepacketizeScenarioIdr ==
    /\ inputs = <<>>
    /\ \E n \in ScenarioSeqs : Repacketize(Packet(n, TRUE, 0, ScenarioIdr))

NextScenario == RepacketizeScenarioIdr

SpecScenario == InitScenario /\ [][NextScenario]_vars

\* ------------------------------------------------------------- properties
\* what the properties read off the histories
EmittedIdx == 1..Len(emitted)
InputIdx == 1..Len(inputs)
NalTypeOf(payload) == Type5(At(payload, 0))
FuTypeOf(payload) == Type5(At(payload, 1))
IsFuA(payload) == NalTypeOf(payload) = NAL_TYPE_FU_A
IsStapA(payload) == NalTypeOf(payload) = NAL_TYPE_STAP_A
\* the NALs of a STAP-A payload (none when it cannot be read)
NalsIn(payload) ==
    LET dep == depacketizeStapA(payload)
    IN IF dep.threw THEN <<>> ELSE dep.nals
HoldsType(payload, type) ==
    \/ ~IsFuA(payload) /\ ~IsStapA(payload) /\ NalTypeOf(payload) = type
    \/ IsFuA(payload) /\ FuTypeOf(payload) = type
    \/ IsStapA(payload)
       /\ \E i \in 1..Len(NalsIn(payload)) : NalTypeOf(NalsIn(payload)[i]) = type
\* b follows a in the 16-bit sequence space
SeqAfter(a, b) == (b - a + SeqMod) % SeqMod \in 1..(SeqMod \div 2 - 1)
AnyThrew == \E i \in 1..Len(threw) : threw[i]

\* C1: every emitted payload is at most maxPacketSize long, except a raw NAL
\* that packetizeOneStapA returned after packing nothing.
C1_SizeBound ==
    \A k \in EmittedIdx :
        emitted[k].tag # "raw" => Len(emitted[k].pkt.payload) <= maxPacketSize

\* C1's case: fragments of an oversized single NAL, an aggregate, and a raw
\* NAL longer than maxPacketSize have all been emitted
C1_Witness ==
    /\ \E k \in EmittedIdx : emitted[k].tag = "fua"
                             /\ Len(emitted[k].pkt.payload) = maxPacketSize
    /\ \E k \in EmittedIdx : emitted[k].tag = "stapa"
    /\ \E k \in EmittedIdx : emitted[k].tag = "raw"
                             /\ Len(emitted[k].pkt.payload) > maxPacketSize

\* the access units seen so far, and those a later packet has closed
Timestamps == {inputs[i].timestamp : i \in InputIdx}
ClosedUnits == {t \in Timestamps : \E i \in InputIdx : inputs[i].timestamp > t}
EmittedFor(t) == {k \in EmittedIdx : emitted[k].pkt.timestamp = t}
LastInputOf(t) ==
    inputs[CHOOSE i \in InputIdx :
              /\ inputs[i].timestamp = t
              /\ \A j \in InputIdx : inputs[j].timestamp = t => j <= i]

\* C2: in every closed access unit the marker is on exactly the last emitted
\* packet when the unit's last input packet had it, and on none otherwise.
C2_MarkerOnLastOnly ==
    \A t \in ClosedUnits :
        \A k \in EmittedFor(t) :
            emitted[k].pkt.marker
              <=> (LastInputOf(t).marker /\ \A j \in EmittedFor(t) : j <= k)

\* no SEI (single, aggregated or fragmented) and no unknown type was fed
NoSeiFed == \A i \in InputIdx : ~HoldsType(inputs[i].payload, NAL_TYPE_SEI)
NoUnknownFed ==
    \A i \in InputIdx :
        NalTypeOf(inputs[i].payload) \in (1..23) \cup {NAL_TYPE_STAP_A, NAL_TYPE_FU_A}
ContiguousInput ==
    \A i \in InputIdx :
        i > 1 => inputs[i].sequenceNumber = (inputs[i - 1].sequenceNumber + 1) % SeqMod
SeqOffset(k) ==
    (emitted[k].pkt.sequenceNumber - emitted[1].pkt.sequenceNumber + SeqMod) % SeqMod
\* the offsets from the first emitted sequence number are 0 .. count-1, each once
GapFreeNoDuplicates ==
    \A n \in 0..(Len(emitted) - 1) :
        Cardinality({k \in EmittedIdx : SeqOffset(k) = n}) = 1

\* C3: with contiguous input and no SEI or unknown packet fed (and no call
\* raising), the emitted sequence numbers have no gap and no duplicate,
\* groups that a flush rejects included.
\* It is read at the call boundaries where nothing is buffered.
C3_NoGapsNoDuplicates ==
    (/\ ContiguousInput /\ NoSeiFed /\ NoUnknownFed /\ ~AnyThrew
     /\ pendingFuA = <<>> /\ pendingStapA = <<>>)
    => GapFreeNoDuplicates

\* C4: no emitted packet holds a NAL of type 6, as a single NAL, inside a
\* STAP-A, or as FU-A fragments.
C4_NoSeiEmitted ==
    \A k \in EmittedIdx : ~HoldsType(emitted[k].pkt.payload, NAL_TYPE_SEI)

\* an SPS had been observed in the input by the end of call n
SpsObservedBy(n) ==
    \E i \in 1..n :
        LET p == inputs[i].payload
        IN ~IsFuA(p) /\ HoldsType(p, NAL_TYPE_SPS)
IsCodecStapA(payload) ==
    /\ IsStapA(payload)
    /\ codecInfo.sps # <<>> /\ codecInfo.pps # <<>>
    /\ depacketizeStapA(payload)
         = [threw |-> FALSE, nals |-> <<codecInfo.sps[1], codecInfo.pps[1]>>]

\* C5: an emitted packet with IDR data, emitted while no SPS has been observed
\* and codecInfo.sps is present, has a STAP-A of the codecInfo SPS and PPS
\* before it in its access unit, at an earlier sequence number.
C5_SpsBeforeIdr ==
    \A k \in EmittedIdx :
        (/\ HoldsType(emitted[k].pkt.payload, NAL_TYPE_IDR)
         /\ ~SpsObservedBy(emitted[k].call)
         /\ codecInfo.sps # <<>>)
        => \E j \in 1..(k - 1) :
              /\ IsCodecStapA(emitted[j].pkt.payload)
              /\ emitted[j].pkt.timestamp = emitted[k].pkt.timestamp
              /\ SeqAfter(emitted[j].pkt.sequenceNumber, emitted[k].pkt.sequenceNumber)

\* every input is a single NAL other than SPS and PPS, a readable STAP-A, or
\* a packet of unknown type: nothing is buffered, and only SEI and unknown
\* packets are not forwarded
OnlySeiAndUnknownDropped ==
    \A i \in InputIdx :
        LET p == inputs[i].payload
        IN /\ ~IsFuA(p)
           /\ NalTypeOf(p) \notin {NAL_TYPE_SPS, NAL_TYPE_PPS}
           /\ IsStapA(p) => ~depacketizeStapA(p).threw

\* C6: when only SEI and unknown-type input is dropped, the emitted sequence
\* numbers form a gap-free run: each one follows its predecessor.
C6_DropsLeaveNoGap ==
    (ContiguousInput /\ OnlySeiAndUnknownDropped)
    => \A k \in EmittedIdx :
          k > 1 => emitted[k].pkt.sequenceNumber
                     = (emitted[k - 1].pkt.sequenceNumber + 1) % SeqMod

\* C7: no call of repacketize raises an error.
C7_Total == ~AnyThrew

\* the bits of an emitted FU-A fragment's FU header
IsStartFragment(k) == IsFuA(emitted[k].pkt.payload) /\ StartBit(At(emitted[k].pkt.payload, 1))
                      /\ ~EndBit(At(emitted[k].pkt.payload, 1))
IsMiddleFragment(k) == IsFuA(emitted[k].pkt.payload) /\ ~StartBit(At(emitted[k].pkt.payload, 1))
                       /\ ~EndBit(At(emitted[k].pkt.payload, 1))
IsEndFragment(k) == IsFuA(emitted[k].pkt.payload) /\ ~StartBit(At(emitted[k].pkt.payload, 1))
                    /\ EndBit(At(emitted[k].pkt.payload, 1))
\* emitted packet k has sequence number N + d, N the scenario's input
ScenarioSeq(k, d) == emitted[k].pkt.sequenceNumber = (inputs[1].sequenceNumber + d) % SeqMod
ScenarioStapFirst ==
    /\ IsCodecStapA(emitted[1].pkt.payload)
    /\ ScenarioSeq(1, 0)

C9_PacketsRestored == packets = inputs

\* C9's case: one packet has been the template of three or more emissions,
\* and a buffered packet of an earlier access unit the template of a flush
C9_Witness ==
    /\ \E i \in 1..Len(returned) : returned[i] >= 3
    /\ \E k \in EmittedIdx : emitted[k].pkt.timestamp # inputs[emitted[k].call].timestamp

\* C10: the fragments of packetizeFuA(data, false, false), for a whole NAL
\* with at least one payload byte, defragment to data.
C10_FuARoundTrip ==
    (/\ probe.op = "packetizeFuA"
     /\ ~probe.noStart /\ ~probe.noEnd
     /\ NalTypeOf(probe.data) # NAL_TYPE_FU_A
     /\ Len(probe.data) > NAL_HEADER_SIZE)
    => /\ probe.fragments # <<>>
       /\ Defragment(probe.fragments) = probe.data

\* C10's case: a NAL with the F bit set split into three or more fragments of
\* two different sizes
C10_Witness ==
    /\ probe.op = "packetizeFuA"
    /\ ~probe.noStart /\ ~probe.noEnd
    /\ FBit(At(probe.data, 0)) = 128 /\ NalTypeOf(probe.data) # NAL_TYPE_FU_A
    /\ Len(probe.fragments) >= 3
    /\ Len(probe.fragments[1]) # Len(probe.fragments[Len(probe.fragments)])

\* the bytes a queue of NALs takes inside a STAP-A: a length field and the
\* NAL, for each
RECURSIVE FramedSize(_)
FramedSize(datas) ==
    IF datas = <<>> THEN 0
    ELSE LENGTH_FIELD_SIZE + Len(Head(datas)) + FramedSize(Tail(datas))
StapARoundTrips ==
    /\ probe.depacketized = [threw |-> FALSE, nals |-> probe.datas]
    /\ probe.rest = <<>>

\* C11 as stated: a queue of 1..9 NALs with 1 + sum(2 + len) within
\* maxPacketSize comes back from depacketizeStapA(packetizeOneStapA(queue))
\* unchanged, and the queue is left empty.
C11_RoundTripHeaderByte ==
    (/\ probe.op = "packetizeOneStapA"
     /\ Len(probe.datas) \in 1..MaxStapNals
     /\ NAL_HEADER_SIZE + FramedSize(probe.datas) <= maxPacketSize)
    => StapARoundTrips

\* C11 amended: the same with the budget the loop starts from,
\* maxPacketSize - STAP_A_HEADER_SIZE: 3 + sum(2 + len) within maxPacketSize.
C11_RoundTripBudget ==
    (/\ probe.op = "packetizeOneStapA"
     /\ Len(probe.datas) \in 1..MaxStapNals
     /\ (NAL_HEADER_SIZE + LENGTH_FIELD_SIZE) + FramedSize(probe.datas) <= maxPacketSize)
    => StapARoundTrips

\* C11's case: nine NALs that fill the budget exactly have been aggregated
C11_Witness ==
    /\ probe.op = "packetizeOneStapA"
    /\ Len(probe.datas) = MaxStapNals
    /\ (NAL_HEADER_SIZE + LENGTH_FIELD_SIZE) + FramedSize(probe.datas) = maxPacketSize
    /\ probe.counter = MaxStapNals
    /\ Len(probe.packet) = maxPacketSize - LENGTH_FIELD_SIZE

\* the packet of the call being made, and whether it joins the buffered SPS/PPS
NewInput == inputs'[Len(inputs')]
JoinsPendingStapA ==
    /\ NalTypeOf(NewInput.payload) \in {NAL_TYPE_SPS, NAL_TYPE_PPS}
    /\ NewInput.timestamp = packets[pendingStapA[1][1]].timestamp
\* the buffered packets of before the call are no longer buffered after it
PendingStapALeft ==
    \/ pendingStapA' = <<>>
    \/ \A i \in 1..Len(pendingStapA'[1]) :
          \A j \in 1..Len(pendingStapA[1]) : pendingStapA'[1][i] # pendingStapA[1][j]

\* C12: a call made while SPS/PPS are buffered leaves them buffered only when
\* its packet is a single SPS or PPS of the same timestamp; on any other
\* packet they are flushed (before the packet is dispatched).
C12_OthersFlushPendingStapA ==
    [][(/\ pendingStapA # <<>>
        /\ Len(inputs') = Len(inputs) + 1
        /\ ~JoinsPendingStapA)
       => PendingStapALeft]_vars

\* the call being made completes a buffered FU-A group: its packet is an FU-A
\* fragment with the end bit that joins the group (same timestamp) or is a
\* group of its own, the group's first fragment has the start bit, and the
\* validation accepts the group
GroupBefore == IF pendingFuA = <<>> THEN <<>> ELSE pendingFuA[1]
CompletesFuAGroup ==
    /\ Len(inputs') = Len(inputs) + 1
    /\ IsFuA(NewInput.payload) /\ EndBit(At(NewInput.payload, 1))
    /\ IF GroupBefore = <<>>
       THEN /\ StartBit(At(NewInput.payload, 1))
            /\ Len(NewInput.payload) < maxPacketSize * 2
       ELSE /\ packets[GroupBefore[1]].timestamp = NewInput.timestamp
            /\ StartBit(At(packets[GroupBefore[1]].payload, 1))
            /\ ~FuAGroupBroken([packets |-> Append(packets, NewInput)],
                               Append(GroupBefore, Len(inputs')))
\* the FU-A fragments the call emitted
NewFragments ==
    SelectSeq(SubSeq(emitted', Len(emitted) + 1, Len(emitted')),
              LAMBDA e : e.tag = "fua")
FragmentBitsInPlace(fragments) ==
    \A k \in 1..Len(fragments) :
        /\ StartBit(At(fragments[k], 1)) <=> k = 1
        /\ EndBit(At(fragments[k], 1)) <=> k = Len(fragments)

\* C13: the fragments emitted for a buffered group that starts with the start
\* bit and ends with the end bit carry the start bit on the first, the end bit
\* on the last and neither bit elsewhere, whatever their number (one
\* included); and packetizeFuA(data, false, noEnd) of a whole NAL sets the
\* start bit on its first fragment.
C13_StartAndEndBits ==
    [][/\ CompletesFuAGroup
          => FragmentBitsInPlace([k \in 1..Len(NewFragments) |-> NewFragments[k].pkt.payload])
       /\ (/\ probe'.op = "packetizeFuA"
           /\ ~probe'.noStart
           /\ NalTypeOf(probe'.data) # NAL_TYPE_FU_A
           /\ probe'.fragments # <<>>)
          => StartBit(At(probe'.fragments[1], 1))]_vars

\* extraPackets before call i, and its net change during the call
ExtraBefore(i) == IF i = 1 THEN 0 ELSE extraLog[i - 1]
ExtraDelta(i) == extraLog[i] - ExtraBefore(i)

\* C14: during every call that returns, extraPackets changes by the number of
\* packets the call returned, less one.
C14_DeltaIsReturnedLessOne ==
    \A i \in InputIdx : ~threw[i] => ExtraDelta(i) = returned[i] - 1

\* the fragments of a group do not all carry the first one's original NAL
\* type, or their sequence numbers are not contiguous modulo 2^16
GroupMismatch(pk, group) ==
    \E i \in 1..Len(group) :
        \/ FuTypeOf(pk[group[i]].payload) # FuTypeOf(pk[group[1]].payload)
        \/ /\ i > 1
           /\ pk[group[i]].sequenceNumber # (pk[group[i - 1]].sequenceNumber + 1) % SeqMod
\* the call being made flushes the buffered group because of a packet that is
\* not part of it: a new timestamp, an input STAP-A, or a single NAL
FlushedFromOutside ==
    /\ Len(inputs') = Len(inputs) + 1
    /\ GroupBefore # <<>>
    /\ \/ packets[GroupBefore[1]].timestamp # NewInput.timestamp
       \/ NalTypeOf(NewInput.payload) \in (1..23) \cup {NAL_TYPE_STAP_A}
\* the call being made flushes the buffered group with its own packet, an
\* FU-A fragment with the end bit, as the group's last
FlushedByEndFragment ==
    /\ Len(inputs') = Len(inputs) + 1
    /\ GroupBefore # <<>>
    /\ packets[GroupBefore[1]].timestamp = NewInput.timestamp
    /\ IsFuA(NewInput.payload) /\ EndBit(At(NewInput.payload, 1))
\* the outcome of the call, had nothing been buffered in pendingFuA
IdleOutcome ==
    repacketize([extraPackets |-> extraPackets, pendingStapA |-> pendingStapA,
                 pendingFuA |-> <<>>, seenSps |-> seenSps,
                 packets |-> Append(packets, NewInput), ret |-> <<>>, threw |-> FALSE],
                Len(inputs'))
NewEmitted == SubSeq(emitted', Len(emitted) + 1, Len(emitted'))
ProcessedAsIdle ==
    \E r \in {IdleOutcome} :
        /\ extraPackets' = r.extraPackets
        /\ seenSps' = r.seenSps
        /\ pendingFuA' = r.pendingFuA
        /\ pendingStapA' = r.pendingStapA
        /\ threw'[Len(threw')] = r.threw
        /\ ~r.threw => /\ Len(NewEmitted) = Len(r.ret)
                       /\ \A k \in 1..Len(r.ret) : NewEmitted[k].pkt = r.ret[k].pkt
\* the group and the fragment that ended it are gone, with no effect but the
\* SPS/PPS an IDR start fragment may have called for
DiscardedWithGroup ==
    /\ pendingFuA' = <<>>
    /\ seenSps' = seenSps
    /\ \A k \in 1..Len(NewEmitted) : NewEmitted[k].tag = "stapa"
    /\ extraPackets' = extraPackets + Len(NewEmitted)

\* C15 as stated: a flush that finds a type mismatch or a sequence gap emits
\* nothing for the group, clears pendingFuA, leaves extraPackets and seenSps
\* as they were, and the packet that triggered it is processed as in Idle.
C15_TriggerProcessedAsIdle ==
    [][/\ (FlushedFromOutside /\ GroupMismatch(packets, GroupBefore)) => ProcessedAsIdle
       /\ (/\ FlushedByEndFragment
           /\ GroupMismatch(Append(packets, NewInput), Append(GroupBefore, Len(inputs'))))
          => ProcessedAsIdle]_vars

\* C15 amended: the same for a triggering packet that is not part of the
\* group; an end fragment that completes a mismatching group is discarded
\* with it.
C15_RejectedGroupDiscarded ==
    [][/\ (FlushedFromOutside /\ GroupMismatch(packets, GroupBefore)) => ProcessedAsIdle
       /\ (/\ FlushedByEndFragment
           /\ GroupMismatch(Append(packets, NewInput), Append(GroupBefore, Len(inputs'))))
          => DiscardedWithGroup]_vars

\* C15's case: two start fragments of an IDR with a lost packet between them
\* were buffered, a slice of the same access unit made the flush reject them,
\* and the slice went out alone
C15_Witness ==
    /\ Len(inputs) = 3
    /\ IsFuA(inputs[1].payload) /\ inputs[2].payload = inputs[1].payload
    /\ ~EndBit(At(inputs[1].payload, 1))
    /\ Len(inputs[1].payload) < maxPacketSize * 2
    /\ inputs[2].sequenceNumber # (inputs[1].sequenceNumber + 1) % SeqMod
    /\ inputs[3].payload = Slice
    /\ inputs[1].timestamp = inputs[3].timestamp /\ inputs[2].timestamp = inputs[3].timestamp
    /\ returned[3] = 1 /\ emitted[Len(emitted)].tag = "single"
    /\ pendingFuA = <<>>

\* the packets held in the two buffers
HeldIn(pending) == IF pending = <<>> THEN {} ELSE {pending[1][i] : i \in 1..Len(pending[1])}

\* C16: at every call boundary at most one of pendingFuA and pendingStapA
\* holds packets, and every packet held has the timestamp of the packet of
\* the last call.
C16_OneBufferCurrentTimestamp ==
    /\ HeldIn(pendingFuA) = {} \/ HeldIn(pendingStapA) = {}
    /\ \A id \in HeldIn(pendingFuA) \cup HeldIn(pendingStapA) :
          packets[id].timestamp = LastInput.timestamp

\* C16's case: a start fragment was buffered, then an SPS and a PPS of the
\* same access unit took its place
C16_Witness ==
    /\ Len(inputs) = 3
    /\ IsFuA(inputs[1].payload) /\ ~EndBit(At(inputs[1].payload, 1))
    /\ Len(inputs[1].payload) < maxPacketSize * 2
    /\ NalTypeOf(inputs[2].payload) = NAL_TYPE_SPS
    /\ NalTypeOf(inputs[3].payload) = NAL_TYPE_PPS
    /\ inputs[1].timestamp = inputs[3].timestamp /\ inputs[2].timestamp = inputs[3].timestamp
    /\ HeldIn(pendingStapA) = {2, 3}
    /\ HeldIn(pendingFuA) = {}

\* the position of emitted packet k among the packets of its call
PositionInCall(k) == Cardinality({j \in 1..k : emitted[j].call = emitted[k].call})
\* extraPackets when emitted packet k was made: every later packet of the
\* call raised it by one (nothing buffered takes part)
ExtraAt(k) == extraLog[emitted[k].call] - (returned[emitted[k].call] - PositionInCall(k))

\* C17: every emitted sequence number is in 0..65535 and is the template's
\* sequence number plus extraPackets, modulo 2^16, however far below zero
\* extraPackets has gone.
C17_SeqModular ==
    \A k \in EmittedIdx :
        /\ emitted[k].pkt.sequenceNumber \in 0..(SeqMod - 1)
        /\ emitted[k].pkt.sequenceNumber
             = (inputs[emitted[k].call].sequenceNumber + ExtraAt(k)) % SeqMod

\* a direct call packetizeFuA(data, ...) on a whole NAL with a payload
WholeNalProbe ==
    /\ probe.op = "packetizeFuA"
    /\ NalTypeOf(probe.data) # NAL_TYPE_FU_A
    /\ Len(probe.data) - 1 >= 1
\* ceil(p / q) as the least n with n * q >= p
LeastCover(p, q) == CHOOSE n \in 1..p : n * q >= p /\ (n - 1) * q < p
\* the fragments' payload bytes, in order
RECURSIVE FragmentBytes(_)
FragmentBytes(fragments) ==
    IF fragments = <<>> THEN <<>>
    ELSE SubSeq(Head(fragments), 3, Len(Head(fragments))) \o FragmentBytes(Tail(fragments))

\* C18: a whole NAL with payloadSize >= 1 gives ceil(payloadSize / (maxPacketSize - 2))
\* fragments, in input order; the first payloadSize mod numPackets of them carry
\* floor(payloadSize / numPackets) + 1 bytes and the rest one byte less; each
\* indicator is (data[0] & 0xE0) | 28 and each FU header has the type of data[0].
C18_FragmentCountAndSizes ==
    WholeNalProbe =>
        LET payloadSize == Len(probe.data) - 1
            numPackets == LeastCover(payloadSize, maxPacketSize - 2)
        IN /\ Len(probe.fragments) = numPackets
           /\ FragmentBytes(probe.fragments) = Tail(probe.data)
           /\ \A k \in 1..Len(probe.fragments) :
                 /\ Len(probe.fragments[k]) - 2
                      = (payloadSize \div numPackets)
                        + (IF k <= payloadSize % numPackets THEN 1 ELSE 0)
                 /\ probe.fragments[k][1] = (probe.data[1] \div 32) * 32 + 28
                 /\ probe.fragments[k][2] % 32 = probe.data[1] % 32

\* C18's case: a NAL split into three or more fragments, some a byte larger
C18_Witness ==
    /\ WholeNalProbe
    /\ Len(probe.fragments) >= 3
    /\ (Len(probe.data) - 1) % Len(probe.fragments) \in 1..(Len(probe.fragments) - 1)
    /\ Len(probe.fragments[1]) = Len(probe.fragments[Len(probe.fragments)]) + 1
    /\ Len(probe.fragments[1]) = maxPacketSize

\* extraPackets less what the accounting says it should be: packets emitted,
\* less the input packets consumed and not held in a buffer
Balance ==
    extraPackets
      - (Len(emitted)
         - (Len(inputs) - Cardinality(HeldIn(pendingFuA)) - Cardinality(HeldIn(pendingStapA))))

\* the packet of the call has a timestamp other than the buffered ones'
NewTimestamp(pending) == packets[pending[1][1]].timestamp # NewInput.timestamp
\* the FU-A groups the call flushes: the buffered one, when the packet is of
\* another timestamp, an input STAP-A or a single NAL; and the one its own
\* end fragment completes
FlushedBefore ==
    IF GroupBefore # <<>>
       /\ (NewTimestamp(pendingFuA)
           \/ NalTypeOf(NewInput.payload) \in (1..23) \cup {NAL_TYPE_STAP_A})
    THEN {GroupBefore} ELSE {}
JoinedGroup ==
    IF GroupBefore # <<>> /\ ~NewTimestamp(pendingFuA) THEN GroupBefore ELSE <<>>
FlushedByOwnEnd ==
    IF /\ IsFuA(NewInput.payload) /\ EndBit(At(NewInput.payload, 1))
       /\ (JoinedGroup # <<>> \/ Len(NewInput.payload) < maxPacketSize * 2)
    THEN {Append(JoinedGroup, Len(inputs'))} ELSE {}
\* the bytes the fragments of a group carry after their FU bytes
RECURSIVE GroupBytes(_, _)
GroupBytes(pk, group) ==
    IF group = <<>> THEN 0
    ELSE Max(Len(pk[Head(group)].payload) - FU_A_HEADER_SIZE, 0) + GroupBytes(pk, Tail(group))
\* a flush of the call discards a group, or flushes one with no bytes
FuAGroupLost ==
    \E group \in FlushedBefore \cup FlushedByOwnEnd :
        \/ GroupMismatch(Append(packets, NewInput), group)
        \/ GroupBytes(Append(packets, NewInput), group) = 0
\* the call flushes the buffered SPS/PPS, and they do not fit one STAP-A
StapAGroupLost ==
    /\ pendingStapA # <<>>
    /\ \/ NewTimestamp(pendingStapA)
       \/ IsFuA(NewInput.payload)
       \/ NalTypeOf(NewInput.payload) \in (1..23) \ {NAL_TYPE_SPS, NAL_TYPE_PPS}
    /\ Len(packetizeStapA(PayloadsOf([packets |-> packets], pendingStapA[1]))) # 1
\* the packet is an input STAP-A that holds nothing but SEI
EmptiedBySeiFilter ==
    /\ IsStapA(NewInput.payload)
    /\ ~depacketizeStapA(NewInput.payload).threw
    /\ \A i \in 1..Len(NalsIn(NewInput.payload)) :
          NalTypeOf(NalsIn(NewInput.payload)[i]) = NAL_TYPE_SEI
AccountingProvisos == ~FuAGroupLost /\ ~StapAGroupLost /\ ~EmptiedBySeiFilter

\* C19: extraPackets = emitted - (consumed - buffered) at every call boundary:
\* it is so initially, and every call keeps it so unless it discards a
\* buffered group, flushes an FU-A group with no fragment bytes, or has an
\* input STAP-A emptied by the SEI filter.
C19_Accounting ==
    [][(Len(inputs') = Len(inputs) + 1 /\ AccountingProvisos)
       => Balance' = Balance]_vars

\* the same for the calls that return
AccountingOfReturningCalls ==
    [][(Len(inputs') = Len(inputs) + 1 /\ AccountingProvisos /\ ~threw'[Len(threw')])
       => Balance' = Balance]_vars

\* seenSps never falls back, and rises only in a call whose packet is an SPS
\* or an input STAP-A holding one
SeenSpsMonotone == seenSps => seenSps'
SeenSpsFromInput ==
    (~seenSps /\ seenSps')
    => /\ Len(inputs') = Len(inputs) + 1
       /\ ~IsFuA(NewInput.payload) /\ HoldsType(NewInput.payload, NAL_TYPE_SPS)
\* the call's packet is a single-NAL IDR or the start fragment of one, in a
\* stream that has carried no SPS, and codecInfo has both sps and pps
IdrWithoutSps ==
    /\ Len(inputs') = Len(inputs) + 1
    /\ \/ NalTypeOf(NewInput.payload) = NAL_TYPE_IDR
       \/ /\ IsFuA(NewInput.payload)
          /\ FuTypeOf(NewInput.payload) = NAL_TYPE_IDR
          /\ StartBit(At(NewInput.payload, 1))
    /\ \A i \in 1..Len(inputs') : ~HoldsType(inputs'[i].payload, NAL_TYPE_SPS)
    /\ codecInfo.sps # <<>> /\ codecInfo.pps # <<>>
\* codecInfo's sps and pps fit one STAP-A
CodecInfoFits ==
    (NAL_HEADER_SIZE + LENGTH_FIELD_SIZE)
      + FramedSize(<<codecInfo.sps[1], codecInfo.pps[1]>>) <= maxPacketSize
\* the call emits one STAP-A of codecInfo's sps and pps, from its own packet,
\* directly ahead of what it emits for the IDR, one sequence number earlier;
\* when nothing was buffered and the IDR goes out whole or is buffered,
\* extraPackets is one higher
OwnSpsPpsEmitted ==
    /\ ~seenSps'
    /\ Cardinality({k \in 1..Len(NewEmitted) : IsCodecStapA(NewEmitted[k].pkt.payload)}) = 1
    /\ \E k \in 1..Len(NewEmitted) :
          /\ IsCodecStapA(NewEmitted[k].pkt.payload)
          /\ NewEmitted[k].pkt.timestamp = NewInput.timestamp
          /\ k < Len(NewEmitted)
             => /\ HoldsType(NewEmitted[k + 1].pkt.payload, NAL_TYPE_IDR)
                /\ NewEmitted[k + 1].pkt.sequenceNumber
                     = (NewEmitted[k].pkt.sequenceNumber + 1) % SeqMod
    /\ (pendingFuA = <<>> /\ pendingStapA = <<>> /\ Len(NewEmitted) <= 2)
       => extraPackets' = extraPackets + 1

====
